---- MODULE Spec2Model ----
(***************************************************************************)
(* GOGAR, the game of giving and asking for reasons (gogar.py and its      *)
(* enhanced variant gogar_enh.py): the agents' state, the commands of      *)
(* Game.process_command and the scorekeeping functions of class Game.      *)
(* Command text parsing and the rendering of results are left out: a       *)
(* command is the tuple its regular expression extracts, a result is the   *)
(* kind of message it is.                                                  *)
(***************************************************************************)
EXTENDS Integers, Sequences, FiniteSets, TLC

VARIABLES agents, transcript, result, call, fp, httpd

vars == <<agents, transcript, result, call, fp, httpd>>

(***************************************************************************)
(* Sentences, inferences, default rules (Agent.__init__)                   *)
(***************************************************************************)
Red == "A is red"
Blue == "A is blue"
Green == "A is green"
Colored == "A is colored"
Fragrant == "A is fragrant"
Edible == "A is edible"
Small == "A is small"
Poisonous == "A is poisonous"

\* Inference.__init__: premises are a frozenset, equality is by both fields.
Inference(premises, conclusion) == [premises |-> premises, conclusion |-> conclusion]

\* Challenge.__init__: equality and hash go through Agent.__eq__, i.e. the
\* target's name, so the target is kept as its name.
Challenge(target, sentence) == [target |-> target.name, sentence |-> sentence]

DefaultCommittive ==
  { Inference({Red}, Colored), Inference({Blue}, Colored), Inference({Green}, Colored) }

DefaultPermissive ==
  { Inference({Red, Fragrant}, Edible), Inference({Blue, Small}, Poisonous) }

DefaultIncompatibles ==
  << {Red, Blue}, {Red, Green}, {Blue, Green}, {Edible, Poisonous} >>

DefaultIntelligence == 100

TranscriptMax == 100

\* Agent.__init__ (gogar_enh.py takes the intelligence as a parameter).
Agent(name, intelligence) ==
  [ name |-> name,
    intelligence |-> intelligence,
    commitments_avowed |-> {},
    incompatibilities |-> DefaultIncompatibles,
    committive_inferences |-> DefaultCommittive,
    permissive_inferences |-> DefaultPermissive,
    challenges_issued |-> {} ]

(***************************************************************************)
(* Bounds and the inputs commands are drawn from                           *)
(***************************************************************************)
\* Commands processed since the transcript was last empty.
MaxSteps == 3

\* Agent names typed in commands, in the order sorted() gives them (code
\* points: upper case before lower case).
NameOrder == << "Ann", "Bob", "Sal", "ann" >>

NameIn == { NameOrder[i] : i \in 1..Len(NameOrder) }

\* str.lower() on the names above.
Lower(name) ==
  CASE name = "Ann" -> "ann"
    [] name = "Bob" -> "bob"
    [] name = "Sal" -> "sal"
    [] name = "ann" -> "ann"

\* Python's None, as agent_named returns it: a value equal to no agent.
None == [none |-> TRUE]

\* Sentences typed in assert, disavow, challenge and withdraw commands.
SentenceIn == { Red, Blue, Fragrant }

\* Inferences typed in add/remove inference commands.
InferenceIn ==
  { Inference({Red}, Colored), Inference({Colored}, Fragrant),
    Inference({Red, Fragrant}, Edible) }

InferenceKindIn == { "committive", "permissive" }

\* Sentence sets typed in add/remove incompatibility commands.
IncompatibilityIn == { {Red, Blue}, {Red, Fragrant} }

\* Values typed in gogar_enh.py's intelligence commands.
IntelligenceIn == { 0, 1 }

(***************************************************************************)
(* class Game: lookups                                                     *)
(***************************************************************************)
\* (mutant) the names are compared as they are written.
agent_named_exact(name) ==
  IF \E agent \in agents : agent.name = name
  THEN CHOOSE agent \in agents : agent.name = name
  ELSE None

\* (mutant) the loop variable is returned when no name matches.
agent_named_last(name) ==
  IF \E agent \in agents : Lower(agent.name) = Lower(name)
  THEN CHOOSE agent \in agents : Lower(agent.name) = Lower(name)
  ELSE IF agents # {} THEN CHOOSE agent \in agents : TRUE ELSE None

\* Game.agent_named: the first agent whose lower-cased name matches.
agent_named(name) ==
  IF \E agent \in agents : Lower(agent.name) = Lower(name)
  THEN CHOOSE agent \in agents : Lower(agent.name) = Lower(name)
  ELSE None

\* (mutant) only the challenges the agent itself issued are looked at.
assertions_challenged_own(agent) ==
  { c.sentence : c \in { c \in agent.challenges_issued : c.target = agent.name } }

\* Game.assertions_challenged: c.target == agent compares names.
assertions_challenged(agent) ==
  { c.sentence : c \in { c \in UNION { a.challenges_issued : a \in agents } :
                           c.target = agent.name } }

assertions_unchallenged(agent) ==
  agent.commitments_avowed \ assertions_challenged(agent)

all_unchallenged_assertions ==
  UNION { assertions_unchallenged(agent) : agent \in agents }

(***************************************************************************)
(* class Game: the scorekeeping functions                                  *)
(***************************************************************************)
\* (mutant) an inference fires as soon as one of its premises is in the basis.
RECURSIVE collect_conclusions_any(_, _, _)
collect_conclusions_any(inferences, basis, conclusions) ==
  IF inferences = {} THEN conclusions
  ELSE LET inference == CHOOSE i \in inferences : TRUE
       IN collect_conclusions_any(inferences \ {inference}, basis,
            IF inference.premises \cap basis # {}
            THEN conclusions \cup {inference.conclusion}
            ELSE conclusions)

\* The loop of Game.consequences_once: one inference at a time, adding its
\* conclusion when its premises are within the basis.
RECURSIVE collect_conclusions(_, _, _)
collect_conclusions(inferences, basis, conclusions) ==
  IF inferences = {} THEN conclusions
  ELSE LET inference == CHOOSE i \in inferences : TRUE
       IN collect_conclusions(inferences \ {inference}, basis,
            IF inference.premises \subseteq basis
            THEN conclusions \cup {inference.conclusion}
            ELSE conclusions)

\* (mutant) the conclusions alone, without the basis.
consequences_once_conclusions(inferences, basis) ==
  collect_conclusions(inferences, basis, {})

consequences_once(inferences, basis) ==
  basis \cup collect_conclusions(inferences, basis, {})

\* (mutant) a set already within the commitments rejects the sentence too.
RECURSIVE compatible_from_strict(_, _, _, _)
compatible_from_strict(incompatibilities, commitments, sentence, i) ==
  IF i > Len(incompatibilities) THEN TRUE
  ELSE IF incompatibilities[i] \subseteq (commitments \cup {sentence})
       THEN FALSE
       ELSE compatible_from_strict(incompatibilities, commitments, sentence, i + 1)

\* (mutant) the first set of the list that holds the sentence decides.
RECURSIVE compatible_from_first(_, _, _, _)
compatible_from_first(incompatibilities, commitments, sentence, i) ==
  IF i > Len(incompatibilities) THEN TRUE
  ELSE LET inc == incompatibilities[i]
       IN IF sentence \in inc
          THEN ~(inc \subseteq (commitments \cup {sentence}) /\ ~(inc \subseteq commitments))
          ELSE compatible_from_first(incompatibilities, commitments, sentence, i + 1)

\* The loop of Game.compatible_with from list position i on: False at the
\* first incompatibility set that the sentence completes, True at the end.
RECURSIVE compatible_from(_, _, _, _)
compatible_from(incompatibilities, commitments, sentence, i) ==
  IF i > Len(incompatibilities) THEN TRUE
  ELSE LET inc == incompatibilities[i]
       IN IF inc \subseteq (commitments \cup {sentence}) /\ ~(inc \subseteq commitments)
          THEN FALSE
          ELSE compatible_from(incompatibilities, commitments, sentence, i + 1)

compatible_with(incompatibilities, commitments, sentence) ==
  compatible_from(incompatibilities, commitments, sentence, 1)

\* (mutant) the members of a set that lies within the commitments are
\* dropped as well.
remove_incompatibles_consistent(sentences, commitments, incompatibilities) ==
  { s \in sentences :
      /\ compatible_with(incompatibilities, commitments, s)
      /\ \A i \in 1..Len(incompatibilities) :
           incompatibilities[i] \subseteq commitments => s \notin incompatibilities[i] }

\* (mutant) a candidate is tested against the commitments and the other
\* candidates together.
remove_incompatibles_jointly(sentences, commitments, incompatibilities) ==
  { s \in sentences :
      compatible_with(incompatibilities, commitments \cup (sentences \ {s}), s) }

remove_incompatibles(sentences, commitments, incompatibilities) ==
  { s \in sentences : compatible_with(incompatibilities, commitments, s) }

\* (mutant) the consequences are kept as they come.
consequences_once_unpruned(inferences, base, commitments, incompatibilities) ==
  consequences_once(inferences, base)

consequences_once_and_prune(inferences, base, commitments, incompatibilities) ==
  remove_incompatibles(consequences_once(inferences, base), commitments, incompatibilities)

\* (mutant) the permissive inferences are applied to all the entitlements.
expand_entitlements_ungated(coms, ents, incs, cominfs, perminfs, times) ==
  LET ents2 == consequences_once_and_prune(cominfs, ents, coms, incs)
      ents3 == consequences_once_and_prune(perminfs, ents, coms, incs)
  IN ents2 \cup ents3

\* (mutant) only what the step adds is returned.
expand_entitlements_fresh(coms, ents, incs, cominfs, perminfs, times) ==
  LET ents2 == consequences_once_and_prune(cominfs, ents, coms, incs)
      ents3 == consequences_once_and_prune(perminfs, ents \cap coms, coms, incs)
  IN (ents2 \cup ents3) \ ents

expand_entitlements(coms, ents, incs, cominfs, perminfs, times) ==
  LET ents2 == consequences_once_and_prune(cominfs, ents, coms, incs)
      ents3 == consequences_once_and_prune(perminfs, ents \cap coms, coms, incs)
  IN ents2 \cup ents3

\* The step functions handed to fixed_point are closures; a closure is the
\* record of what it captures, and apply_func is its call.
commitments_lambda(scorekeeper) ==
  [kind |-> "consequences_once", inferences |-> scorekeeper.committive_inferences]

entitlements_lambda(coms, incs, cominfs, perminfs, times) ==
  [kind |-> "expand_entitlements", coms |-> coms, incs |-> incs,
   cominfs |-> cominfs, perminfs |-> perminfs, times |-> times]

table_lambda(map) == [kind |-> "table", map |-> map]

apply_func(func, s) ==
  CASE func.kind = "consequences_once" -> consequences_once(func.inferences, s)
    [] func.kind = "expand_entitlements" ->
         expand_entitlements(func.coms, s, func.incs, func.cominfs, func.perminfs, func.times)
    [] func.kind = "table" -> func.map[s]

\* (mutant) the last of the `times` applications is not made.
RECURSIVE fixed_point_one_short(_, _, _)
fixed_point_one_short(s, times, func) ==
  IF times <= 1 THEN s
  ELSE LET nxt == apply_func(func, s)
       IN IF s = nxt THEN s
          ELSE fixed_point_one_short(nxt, times - 1, func)

RECURSIVE fixed_point(_, _, _)
fixed_point(s, times, func) ==
  IF times = 0 THEN s
  ELSE LET nxt == apply_func(func, s)
       IN IF s = nxt THEN s
          ELSE fixed_point(nxt, times - 1, func)

\* (mutant) the other's own committive inferences and intelligence are used.
commitments_of_other(scorekeeper, other) ==
  fixed_point(other.commitments_avowed, other.intelligence, commitments_lambda(other))

\* (mutant) one round of the committive inferences, however intelligent the
\* scorekeeper.
commitments_once(scorekeeper, other) ==
  fixed_point(other.commitments_avowed,
              IF scorekeeper.intelligence = 0 THEN 0 ELSE 1,
              commitments_lambda(scorekeeper))

commitments(scorekeeper, other) ==
  fixed_point(other.commitments_avowed, scorekeeper.intelligence,
              commitments_lambda(scorekeeper))

\* (mutant) the other's incompatibility list is the one looked through.
incompatibles_of_other(scorekeeper, other) ==
  LET coms == commitments(scorekeeper, other)
  IN { other.incompatibilities[i] :
         i \in { j \in 1..Len(other.incompatibilities) :
                   other.incompatibilities[j] \subseteq coms } }

incompatibles(scorekeeper, other) ==
  LET coms == commitments(scorekeeper, other)
  IN { scorekeeper.incompatibilities[i] :
         i \in { j \in 1..Len(scorekeeper.incompatibilities) :
                   scorekeeper.incompatibilities[j] \subseteq coms } }

\* (mutant) only the other's unchallenged assertions are the base.
entitlement_base_of_other(scorekeeper, other) ==
  remove_incompatibles(assertions_unchallenged(other), commitments(scorekeeper, other),
                       scorekeeper.incompatibilities)

\* `base` in Game.entitlements: the unchallenged assertions of all agents,
\* pruned.
entitlement_base(scorekeeper, other) ==
  remove_incompatibles(all_unchallenged_assertions, commitments(scorekeeper, other),
                       scorekeeper.incompatibilities)

\* (mutant) the expansion is bounded by the scorekeeper's intelligence.
entitlements_by_scorekeeper(scorekeeper, other) ==
  LET coms == commitments(scorekeeper, other)
      incs == scorekeeper.incompatibilities
      times == scorekeeper.intelligence
      base == entitlement_base(scorekeeper, other)
  IN fixed_point(base, times,
                 entitlements_lambda(coms, incs, scorekeeper.committive_inferences,
                                     scorekeeper.permissive_inferences, times))

entitlements(scorekeeper, other) ==
  LET coms == commitments(scorekeeper, other)
      incs == scorekeeper.incompatibilities
      times == other.intelligence
      base == entitlement_base(scorekeeper, other)
  IN fixed_point(base, times,
                 entitlements_lambda(coms, incs, scorekeeper.committive_inferences,
                                     scorekeeper.permissive_inferences, times))

\* Game.score, before it is rendered as text.
score(scorekeeper, other) ==
  [ scorekeeper |-> scorekeeper.name, other |-> other.name,
    commitments |-> commitments(scorekeeper, other),
    entitlements |-> entitlements(scorekeeper, other),
    incompatibles |-> incompatibles(scorekeeper, other) ]

\* sorted(self.agents, key=lambda a: a.name): the names present, in NameOrder.
sorted_agents ==
  LET present == { a.name : a \in agents }
      by_name(n) == CHOOSE a \in agents : a.name = n
  IN [ k \in 1..Cardinality(present) |->
         by_name(NameOrder[CHOOSE i \in 1..Len(NameOrder) :
                     /\ NameOrder[i] \in present
                     /\ Cardinality({ j \in 1..i : NameOrder[j] \in present }) = k]) ]

\* (mutant) the two loops are nested the other way round.
score_all_other_major ==
  LET sorted == sorted_agents
      n == Len(sorted)
  IN [ k \in 1..(n * n) |-> score(sorted[((k - 1) % n) + 1], sorted[((k - 1) \div n) + 1]) ]

\* Game.score_all: one score per ordered pair, scorekeeper-major.
score_all ==
  LET sorted == sorted_agents
      n == Len(sorted)
  IN [ k \in 1..(n * n) |-> score(sorted[((k - 1) \div n) + 1], sorted[((k - 1) % n) + 1]) ]

(***************************************************************************)
(* class Agent: the methods that change an agent                           *)
(***************************************************************************)
\* (mutant) the asserted sentence takes the place of the earlier avowals.
Agent_asserts_afresh(self, sentence) ==
  [self EXCEPT !.commitments_avowed = {sentence}]

Agent_asserts(self, sentence) ==
  [self EXCEPT !.commitments_avowed = @ \cup {sentence}]

Agent_disavows(self, sentence) ==
  [self EXCEPT !.commitments_avowed = @ \ {sentence}]

\* (mutant) the challenge is recorded against the challenger.
Agent_challenges_self(self, agent, sentence) ==
  IF sentence \in agent.commitments_avowed
  THEN [self EXCEPT !.challenges_issued = @ \cup {Challenge(self, sentence)}]
  ELSE self

Agent_challenges(self, agent, sentence) ==
  IF sentence \in agent.commitments_avowed
  THEN [self EXCEPT !.challenges_issued = @ \cup {Challenge(agent, sentence)}]
  ELSE self

\* (mutant) every challenge to the agent is dropped, whatever its sentence.
Agent_withdraws_all(self, agent, sentence) ==
  [self EXCEPT !.challenges_issued = { c \in @ : c.target # agent.name }]

Agent_withdraws_challenge(self, agent, sentence) ==
  [self EXCEPT !.challenges_issued = @ \ {Challenge(agent, sentence)}]

\* list.remove(x): drops the first element equal to x.
list_remove(list, x) ==
  LET first == CHOOSE i \in 1..Len(list) :
                 list[i] = x /\ \A j \in 1..(i - 1) : list[j] # x
  IN [ k \in 1..(Len(list) - 1) |-> IF k < first THEN list[k] ELSE list[k + 1] ]

list_contains(list, x) == \E i \in 1..Len(list) : list[i] = x

\* The `removes incompatibility` branch of process_command on its agent:
\* the set is removed from the list only if it is in it.
Agent_removes_incompatibility(agent, sentences) ==
  IF list_contains(agent.incompatibilities, sentences)
  THEN [agent EXCEPT !.incompatibilities = list_remove(@, sentences)]
  ELSE agent

(***************************************************************************)
(* Game.process_command: one action per command                            *)
(***************************************************************************)
\* An agent object is changed in place: the set holds the changed agent.
mutated(agent, changed) == (agents \ {agent}) \cup {changed}

\* The result string of a command, as the kind of message it is.  A score
\* message is rendered from score() or score_all() of the agents' state the
\* command leaves, which the record does not repeat.
Message(kind) == [kind |-> kind]

\* self.transcript.append((inp, result)) on a deque(maxlen=100): the model
\* keeps the number of pairs held and which command the newest one is.
transcript_append(n, inp) ==
  [ len |-> IF n < TranscriptMax THEN n + 1 ELSE TranscriptMax, inp |-> inp ]

\* What every command but `new game` does around its own branch.
Processed(inp) == /\ transcript' = transcript_append(transcript.len, inp)
                  /\ UNCHANGED <<call, fp, httpd>>

ScoredAll == result' = Message("score_all")

AddAgent(name, intelligence) ==
  /\ Processed("add agent")
  /\ IF agent_named(name) # None
     THEN /\ result' = Message("already_exists")
          /\ UNCHANGED agents
     ELSE /\ agents' = agents \cup {Agent(name, intelligence)}
          /\ result' = Message("added")

\* (mutant) the challenges to the removed agent leave the game with it.
RemoveAgent_cleaning(name) ==
  /\ Processed("remove agent")
  /\ LET agent == agent_named(name)
     IN IF agent # None
        THEN /\ agents' = { [ a EXCEPT !.challenges_issued =
                                 { c \in @ : c.target # agent.name } ] :
                             a \in agents \ {agent} }
             /\ result' = Message("removed")
        ELSE /\ result' = Message("no_agent")
             /\ UNCHANGED agents

RemoveAgent(name) ==
  /\ Processed("remove agent")
  /\ LET agent == agent_named(name)
     IN IF agent # None
        THEN /\ agents' = agents \ {agent}
             /\ result' = Message("removed")
        ELSE /\ result' = Message("no_agent")
             /\ UNCHANGED agents

\* gogar_enh.py only.
SetIntelligence(name, intelligence) ==
  /\ Processed("set intelligence")
  /\ LET agent == agent_named(name)
     IN IF agent = None
        THEN /\ result' = Message("not_found")
             /\ UNCHANGED agents
        ELSE /\ agents' = mutated(agent, [agent EXCEPT !.intelligence = intelligence])
             /\ result' = Message("intelligence_set")

\* reset() empties the agent set and the transcript before the two agents
\* are added; the command itself is then appended.
NewGame ==
  /\ agents' = { Agent("Ann", DefaultIntelligence), Agent("Bob", DefaultIntelligence) }
  /\ result' = Message("startup")
  /\ transcript' = transcript_append(0, "new game")
  /\ UNCHANGED <<call, fp, httpd>>

\* (mutant) the consequences are added to the other's avowed commitments in
\* place, as a consequences_once that updated its basis would do.
Score_in_place(scorekeeper_name, other_name) ==
  /\ Processed("score on")
  /\ LET scorekeeper == agent_named(scorekeeper_name)
         other == agent_named(other_name)
     IN IF scorekeeper = None \/ other = None
        THEN /\ result' = Message("not_found")
             /\ UNCHANGED agents
        ELSE /\ result' = Message("score")
             /\ agents' = mutated(other,
                  [other EXCEPT !.commitments_avowed = commitments(scorekeeper, other)])

Score(scorekeeper_name, other_name) ==
  /\ Processed("score on")
  /\ UNCHANGED agents
  /\ LET scorekeeper == agent_named(scorekeeper_name)
         other == agent_named(other_name)
     IN IF scorekeeper = None \/ other = None
        THEN result' = Message("not_found")
        ELSE result' = Message("score")

ScoreAll ==
  /\ Processed("score")
  /\ UNCHANGED agents
  /\ ScoredAll

Asserts(agent_name, sentence) ==
  /\ Processed("asserts")
  /\ LET agent == agent_named(agent_name)
     IN IF agent = None
        THEN /\ result' = Message("not_found")
             /\ UNCHANGED agents
        ELSE /\ agents' = mutated(agent, Agent_asserts(agent, sentence))
             /\ ScoredAll

\* (mutant) a disavowal also retracts the challenges to the disavowed sentence.
Disavows_retracting(agent_name, sentence) ==
  /\ Processed("disavows")
  /\ LET agent == agent_named(agent_name)
     IN IF agent = None
        THEN /\ result' = Message("not_found")
             /\ UNCHANGED agents
        ELSE IF sentence \notin agent.commitments_avowed
        THEN /\ result' = Message("not_asserted")
             /\ UNCHANGED agents
        ELSE /\ agents' = { [ IF a = agent THEN Agent_disavows(a, sentence) ELSE a
                                EXCEPT !.challenges_issued =
                                  @ \ { Challenge(agent, sentence) } ] : a \in agents }
             /\ ScoredAll

Disavows(agent_name, sentence) ==
  /\ Processed("disavows")
  /\ LET agent == agent_named(agent_name)
     IN IF agent = None
        THEN /\ result' = Message("not_found")
             /\ UNCHANGED agents
        ELSE IF sentence \notin agent.commitments_avowed
        THEN /\ result' = Message("not_asserted")
             /\ UNCHANGED agents
        ELSE /\ agents' = mutated(agent, Agent_disavows(agent, sentence))
             /\ ScoredAll

\* (mutant) the command does not look at the target's avowed commitments.
Challenges_unguarded(agent_name, target_name, sentence) ==
  /\ Processed("challenges")
  /\ LET agent == agent_named(agent_name)
         target == agent_named(target_name)
     IN IF agent = None \/ target = None
        THEN /\ result' = Message("not_found")
             /\ UNCHANGED agents
        ELSE /\ agents' = mutated(agent, Agent_challenges(agent, target, sentence))
             /\ ScoredAll

Challenges(agent_name, target_name, sentence) ==
  /\ Processed("challenges")
  /\ LET agent == agent_named(agent_name)
         target == agent_named(target_name)
     IN IF agent = None \/ target = None
        THEN /\ result' = Message("not_found")
             /\ UNCHANGED agents
        ELSE IF sentence \notin target.commitments_avowed
        THEN /\ result' = Message("not_asserted")
             /\ UNCHANGED agents
        ELSE /\ agents' = mutated(agent, Agent_challenges(agent, target, sentence))
             /\ ScoredAll

\* (mutant) a withdrawal takes the challenge back from every agent holding it.
Withdraws_everyone(agent_name, target_name, sentence) ==
  /\ Processed("withdraws")
  /\ LET agent == agent_named(agent_name)
         target == agent_named(target_name)
     IN IF agent = None \/ target = None
        THEN /\ result' = Message("not_found")
             /\ UNCHANGED agents
        ELSE /\ agents' = { Agent_withdraws_challenge(a, target, sentence) : a \in agents }
             /\ ScoredAll

Withdraws(agent_name, target_name, sentence) ==
  /\ Processed("withdraws")
  /\ LET agent == agent_named(agent_name)
         target == agent_named(target_name)
     IN IF agent = None \/ target = None
        THEN /\ result' = Message("not_found")
             /\ UNCHANGED agents
        ELSE /\ agents' = mutated(agent, Agent_withdraws_challenge(agent, target, sentence))
             /\ ScoredAll

AddsInference(agent_name, inf_type, inference) ==
  /\ Processed("adds inference")
  /\ LET agent == agent_named(agent_name)
     IN IF agent = None
        THEN /\ result' = Message("not_found")
             /\ UNCHANGED agents
        ELSE /\ agents' = mutated(agent,
                  IF inf_type = "committive"
                  THEN [agent EXCEPT !.committive_inferences = @ \cup {inference}]
                  ELSE [agent EXCEPT !.permissive_inferences = @ \cup {inference}])
             /\ ScoredAll

RemovesInference(agent_name, inf_type, inference) ==
  /\ Processed("removes inference")
  /\ LET agent == agent_named(agent_name)
     IN IF agent = None
        THEN /\ result' = Message("not_found")
             /\ UNCHANGED agents
        ELSE /\ agents' = mutated(agent,
                  IF inf_type = "committive"
                  THEN [agent EXCEPT !.committive_inferences = @ \ {inference}]
                  ELSE [agent EXCEPT !.permissive_inferences = @ \ {inference}])
             /\ ScoredAll

AddsIncompatibility(agent_name, sentences) ==
  /\ Processed("adds incompatibility")
  /\ LET agent == agent_named(agent_name)
     IN IF agent = None
        THEN /\ result' = Message("not_found")
             /\ UNCHANGED agents
        ELSE /\ agents' = mutated(agent,
                  [agent EXCEPT !.incompatibilities = Append(@, sentences)])
             /\ ScoredAll

RemovesIncompatibility(agent_name, sentences) ==
  /\ Processed("removes incompatibility")
  /\ LET agent == agent_named(agent_name)
     IN IF agent = None
        THEN /\ result' = Message("not_found")
             /\ UNCHANGED agents
        ELSE /\ agents' = mutated(agent, Agent_removes_incompatibility(agent, sentences))
             /\ ScoredAll

(***************************************************************************)
(* The game                                                                *)
(***************************************************************************)
NoCall == [op |-> "none"]

\* The empty transcript of Game.__init__ and reset().
NoTranscript == [len |-> 0, inp |-> "none"]

\* Without --web no server is started.
NoServer == [serving |-> FALSE]

\* Game.__init__ leaves the agent set empty (gogar.py); main() of
\* gogar_enh.py then adds Ann and Bob before the first command.
Init ==
  /\ agents \in { {}, { Agent("Ann", DefaultIntelligence), Agent("Bob", DefaultIntelligence) } }
  /\ transcript = NoTranscript
  /\ result = Message("none")
  /\ call = NoCall
  /\ fp = NoCall
  /\ httpd = NoServer

\* The model stops taking commands once the transcript holds MaxSteps of
\* them; `new game` empties it.
Ready == transcript.len < MaxSteps

Next ==
  \/ Ready /\ \E name \in NameIn, intelligence \in IntelligenceIn \cup {DefaultIntelligence} :
       AddAgent(name, intelligence)
  \/ Ready /\ \E name \in NameIn : RemoveAgent(name)
  \/ Ready /\ \E name \in NameIn, intelligence \in IntelligenceIn : SetIntelligence(name, intelligence)
  \/ Ready /\ NewGame
  \/ Ready /\ \E sk \in NameIn, ot \in NameIn : Score(sk, ot)
  \/ Ready /\ ScoreAll
  \/ Ready /\ \E name \in NameIn, sentence \in SentenceIn : Asserts(name, sentence)
  \/ Ready /\ \E name \in NameIn, sentence \in SentenceIn : Disavows(name, sentence)
  \/ Ready /\ \E name \in NameIn, target \in NameIn, sentence \in SentenceIn :
       Challenges(name, target, sentence)
  \/ Ready /\ \E name \in NameIn, target \in NameIn, sentence \in SentenceIn :
       Withdraws(name, target, sentence)
  \/ Ready /\ \E name \in NameIn, kind \in InferenceKindIn, inference \in InferenceIn :
       AddsInference(name, kind, inference)
  \/ Ready /\ \E name \in NameIn, kind \in InferenceKindIn, inference \in InferenceIn :
       RemovesInference(name, kind, inference)
  \/ Ready /\ \E name \in NameIn, sentences \in IncompatibilityIn : AddsIncompatibility(name, sentences)
  \/ Ready /\ \E name \in NameIn, sentences \in IncompatibilityIn : RemovesIncompatibility(name, sentences)

Spec == Init /\ [][Next]_vars

(***************************************************************************)
(* Game.fixed_point, one invocation at a time                              *)
(*                                                                         *)
(* fp is the innermost invocation: its arguments, the number of            *)
(* invocations on the stack (depth), how often func has been applied       *)
(* since the outermost call (calls), and the arguments of that call.  The  *)
(* recursive call is the last thing an invocation does, so a return value  *)
(* is the outermost call's.  CPython refuses a call nested deeper than its *)
(* recursion limit with RecursionError, which nothing in the program       *)
(* catches or raises (sys.setrecursionlimit is never called).              *)
(***************************************************************************)
RecursionLimit == 1000

MaxTimes == 3

FpSentences == { Red, Colored }

\* Every step function on the sets over FpSentences, the cycling ones too.
FpFuncs == [ SUBSET FpSentences -> SUBSET FpSentences ]

\* The step functions that flip between {} and {Red} and so never settle.
FpToggles == { m \in FpFuncs : m[{}] = {Red} /\ m[{Red}] = {} }

FixedPointInvocation(s, times, func) ==
  [ pc |-> "call", s |-> s, times |-> times, func |-> func,
    s0 |-> s, times0 |-> times, calls |-> 0, depth |-> 1, ret |-> {} ]

\* line 166-167, and 170-171: the invocation returns s.
FixedPointReturn ==
  /\ fp.pc = "call"
  /\ fp.depth <= RecursionLimit
  /\ \/ /\ fp.times = 0
        /\ fp' = [fp EXCEPT !.pc = "return", !.ret = fp.s]
     \/ /\ fp.times # 0
        /\ fp.s = apply_func(fp.func, fp.s)
        /\ fp' = [fp EXCEPT !.pc = "return", !.ret = fp.s, !.calls = @ + 1]
  /\ UNCHANGED <<agents, transcript, result, call, httpd>>

\* line 169, 172-173: func changed s, and fixed_point is called on the new set.
FixedPointRecurse ==
  /\ fp.pc = "call"
  /\ fp.depth <= RecursionLimit
  /\ fp.times # 0
  /\ LET nxt == apply_func(fp.func, fp.s)
     IN /\ fp.s # nxt
        /\ fp' = [fp EXCEPT !.s = nxt, !.times = @ - 1, !.calls = @ + 1,
                             !.depth = @ + 1]
  /\ UNCHANGED <<agents, transcript, result, call, httpd>>

\* The call at line 173 that would nest deeper than the interpreter allows.
FixedPointOverflow ==
  /\ fp.pc = "call"
  /\ fp.depth > RecursionLimit
  /\ fp' = [fp EXCEPT !.pc = "RecursionError"]
  /\ UNCHANGED <<agents, transcript, result, call, httpd>>

InitFixedPoint ==
  /\ agents = {}
  /\ transcript = NoTranscript
  /\ result = Message("none")
  /\ call = NoCall
  /\ httpd = NoServer
  /\ fp \in { FixedPointInvocation(s, times, table_lambda(m)) :
                s \in SUBSET FpSentences, times \in 0..MaxTimes, m \in FpFuncs }
            \cup
            { FixedPointInvocation({}, RecursionLimit, table_lambda(m)) : m \in FpToggles }

NextFixedPoint == FixedPointReturn \/ FixedPointRecurse \/ FixedPointOverflow

SpecFixedPoint == InitFixedPoint /\ [][NextFixedPoint]_vars

(***************************************************************************)
(* The same commands on fewer inputs, followed further                     *)
(***************************************************************************)
MaxDeepSteps == 5

DeepNameIn == { "Ann", "Bob" }

DeepSentenceIn == { Red, Colored }

DeepInferenceIn == DefaultCommittive \cup { Inference({Colored}, Fragrant) }

DeepIncompatibilityIn == { {Red, Blue} }

DeepReady == transcript.len < MaxDeepSteps

NextDeep ==
  \/ DeepReady /\ \E name \in DeepNameIn : AddAgent(name, DefaultIntelligence)
  \/ DeepReady /\ \E name \in DeepNameIn : RemoveAgent(name)
  \/ DeepReady /\ \E name \in DeepNameIn : SetIntelligence(name, 0)
  \/ DeepReady /\ NewGame
  \/ DeepReady /\ \E name \in DeepNameIn, sentence \in DeepSentenceIn : Asserts(name, sentence)
  \/ DeepReady /\ \E name \in DeepNameIn, sentence \in DeepSentenceIn : Disavows(name, sentence)
  \/ DeepReady /\ \E name \in DeepNameIn, target \in DeepNameIn, sentence \in DeepSentenceIn :
       Challenges(name, target, sentence)
  \/ DeepReady /\ \E name \in DeepNameIn, target \in DeepNameIn, sentence \in DeepSentenceIn :
       Withdraws(name, target, sentence)
  \/ DeepReady /\ \E name \in DeepNameIn, inference \in DeepInferenceIn :
       RemovesInference(name, "committive", inference)
  \/ DeepReady /\ \E name \in DeepNameIn, sentences \in DeepIncompatibilityIn :
       AddsIncompatibility(name, sentences)
  \/ DeepReady /\ \E name \in DeepNameIn, sentences \in DeepIncompatibilityIn :
       RemovesIncompatibility(name, sentences)

SpecDeep == Init /\ [][NextDeep]_vars

(***************************************************************************)
(* All the commands on all their inputs, for fewer steps                   *)
(***************************************************************************)
MaxShortSteps == 2

ShortReady == transcript.len < MaxShortSteps

NextShort ==
  \/ ShortReady /\ \E name \in NameIn, intelligence \in IntelligenceIn \cup {DefaultIntelligence} :
       AddAgent(name, intelligence)
  \/ ShortReady /\ \E name \in NameIn : RemoveAgent(name)
  \/ ShortReady /\ \E name \in NameIn, intelligence \in IntelligenceIn : SetIntelligence(name, intelligence)
  \/ ShortReady /\ NewGame
  \/ ShortReady /\ \E sk \in NameIn, ot \in NameIn : Score(sk, ot)
  \/ ShortReady /\ ScoreAll
  \/ ShortReady /\ \E name \in NameIn, sentence \in SentenceIn : Asserts(name, sentence)
  \/ ShortReady /\ \E name \in NameIn, sentence \in SentenceIn : Disavows(name, sentence)
  \/ ShortReady /\ \E name \in NameIn, target \in NameIn, sentence \in SentenceIn :
       Challenges(name, target, sentence)
  \/ ShortReady /\ \E name \in NameIn, target \in NameIn, sentence \in SentenceIn :
       Withdraws(name, target, sentence)
  \/ ShortReady /\ \E name \in NameIn, kind \in InferenceKindIn, inference \in InferenceIn :
       AddsInference(name, kind, inference)
  \/ ShortReady /\ \E name \in NameIn, kind \in InferenceKindIn, inference \in InferenceIn :
       RemovesInference(name, kind, inference)
  \/ ShortReady /\ \E name \in NameIn, sentences \in IncompatibilityIn : AddsIncompatibility(name, sentences)
  \/ ShortReady /\ \E name \in NameIn, sentences \in IncompatibilityIn : RemovesIncompatibility(name, sentences)

SpecShort == Init /\ [][NextShort]_vars

(***************************************************************************)
(* Three agents and the commands that change what is scored                *)
(***************************************************************************)
MaxScoreSteps == 4

ScoreNameIn == { "Ann", "Bob", "Sal" }

ScoreSentenceIn == { Red, Blue }

ScoreReady == transcript.len < MaxScoreSteps

NextScore ==
  \/ ScoreReady /\ AddAgent("Sal", DefaultIntelligence)
  \/ ScoreReady /\ \E name \in { "Ann", "Bob" }, intelligence \in IntelligenceIn :
       SetIntelligence(name, intelligence)
  \/ ScoreReady /\ \E name \in ScoreNameIn, sentence \in ScoreSentenceIn :
       Asserts(name, sentence)
  \/ ScoreReady /\ \E target \in { "Bob", "Sal" } : Challenges("Ann", target, Red)
  \/ ScoreReady /\ AddsInference("Ann", "committive", Inference({Colored}, Fragrant))
  \/ ScoreReady /\ \E name \in { "Ann", "Bob" } : RemovesIncompatibility(name, {Red, Blue})

SpecScore == Init /\ [][NextScore]_vars

(***************************************************************************)
(* Calls of the pure functions on drawn arguments                          *)
(***************************************************************************)
MaxInferences == 2

MaxIncompatibilities == 2

FnSentences == { Red, Blue, Colored }

\* Every inference over FnSentences, the ones without premises included.
FnInferences == { Inference(premises, conclusion) :
                    premises \in SUBSET FnSentences, conclusion \in FnSentences }

RECURSIVE FnInferenceSets(_)
FnInferenceSets(n) ==
  IF n = 0 THEN { {} }
  ELSE LET smaller == FnInferenceSets(n - 1)
       IN smaller \cup { S \cup {i} : S \in smaller, i \in FnInferences }

FnIncompatibilityLists(n) ==
  UNION { [ 1..k -> (SUBSET FnSentences) \ { {} } ] : k \in 0..n }

InitFn ==
  /\ agents = {}
  /\ transcript = NoTranscript
  /\ result = Message("none")
  /\ fp = NoCall
  /\ httpd = NoServer
  /\ call \in
       { [ op |-> "consequences_once", pc |-> "call", inferences |-> inferences,
           basis |-> basis ] :
           inferences \in FnInferenceSets(MaxInferences), basis \in SUBSET FnSentences }
       \cup
       { [ op |-> "compatible_with", pc |-> "call", incompatibilities |-> incs,
           commitments |-> coms, sentence |-> sentence ] :
           incs \in FnIncompatibilityLists(MaxIncompatibilities),
           coms \in SUBSET FnSentences, sentence \in FnSentences }

Call_consequences_once ==
  /\ call.op = "consequences_once"
  /\ call.pc = "call"
  /\ call' = [ op |-> call.op, pc |-> "return", inferences |-> call.inferences,
               basis |-> call.basis,
               ret |-> consequences_once(call.inferences, call.basis) ]
  /\ UNCHANGED <<agents, transcript, result, fp, httpd>>

Call_compatible_with ==
  /\ call.op = "compatible_with"
  /\ call.pc = "call"
  /\ call' = [ op |-> call.op, pc |-> "return",
               incompatibilities |-> call.incompatibilities,
               commitments |-> call.commitments, sentence |-> call.sentence,
               ret |-> compatible_with(call.incompatibilities, call.commitments,
                                       call.sentence) ]
  /\ UNCHANGED <<agents, transcript, result, fp, httpd>>

NextFn == Call_consequences_once \/ Call_compatible_with

SpecFn == InitFn /\ [][NextFn]_vars

(***************************************************************************)
(* Assertions, changes of Ann's incompatibility list, and intelligence 0   *)
(***************************************************************************)
MaxListSteps == 4

ListIncompatibilityIn == { {Red, Blue}, {Blue, Colored} }

ListReady == transcript.len < MaxListSteps

NextList ==
  \/ ListReady /\ \E name \in DeepNameIn, sentence \in ScoreSentenceIn : Asserts(name, sentence)
  \/ ListReady /\ \E sentences \in ListIncompatibilityIn : AddsIncompatibility("Ann", sentences)
  \/ ListReady /\ \E sentences \in ListIncompatibilityIn : RemovesIncompatibility("Ann", sentences)
  \/ ListReady /\ \E name \in DeepNameIn : SetIntelligence(name, 0)

SpecList == Init /\ [][NextList]_vars

(***************************************************************************)
(* gogar.py --web: requests to the HTTP server, statement by statement     *)
(***************************************************************************)
MaxRequests == 3

\* What a client may send: a command posted to the server, or a GET of the
\* transcript.
WebRequestIn ==
  { [method |-> "POST", kind |-> "new game", agent_name |-> "", sentence |-> ""],
    [method |-> "POST", kind |-> "score", agent_name |-> "", sentence |-> ""],
    [method |-> "GET", kind |-> "transcript", agent_name |-> "", sentence |-> ""] }
  \cup
  { [method |-> "POST", kind |-> "asserts", agent_name |-> name, sentence |-> Red] :
      name \in { "Ann", "Bob" } }

\* The class attribute game = Game() is the one game of every handler: no
\* agents, an empty transcript.  httpd holds the connections waiting on the
\* listening socket and the handlers that have begun and not yet answered.
InitWeb ==
  /\ agents = {}
  /\ transcript = NoTranscript
  /\ result = Message("none")
  /\ call = NoCall
  /\ fp = NoCall
  /\ httpd = [serving |-> TRUE, pending |-> {}, handling |-> {}, sent |-> 0]

\* A client connects and sends a request, whatever the server is doing.
Connect(request) ==
  /\ httpd.sent < MaxRequests
  /\ httpd' = [httpd EXCEPT !.pending = @ \cup {request}, !.sent = @ + 1]
  /\ UNCHANGED <<agents, transcript, result, call, fp>>

\* (mutant) a server that hands each accepted connection to a thread of its
\* own, as a ThreadingHTTPServer does.
process_request_threading(request) ==
  /\ request \in httpd.pending
  /\ httpd' = [httpd EXCEPT !.pending = @ \ {request},
                            !.handling = @ \cup {[request |-> request, pc |-> "handle"]}]
  /\ UNCHANGED <<agents, transcript, result, call, fp>>

\* HTTPServer.serve_forever in the one web thread: a connection is accepted
\* and its handler run to the end inside the loop, so the next connection
\* is accepted when no handler is running.
process_request(request) ==
  /\ request \in httpd.pending
  /\ httpd.handling = {}
  /\ httpd' = [httpd EXCEPT !.pending = @ \ {request},
                            !.handling = @ \cup {[request |-> request, pc |-> "handle"]}]
  /\ UNCHANGED <<agents, transcript, result, call, fp>>

\* The handler moves on to its next statement, or ends.
goto(h, pc) ==
  httpd' = [httpd EXCEPT !.handling = (@ \ {h}) \cup {[h EXCEPT !.pc = pc]}]

finish(h) ==
  httpd' = [httpd EXCEPT !.handling = @ \ {h}]

\* do_GET for /transcript reads the transcript and answers.
do_GET(h) ==
  /\ h.pc = "handle"
  /\ h.request.method = "GET"
  /\ finish(h)
  /\ UNCHANGED <<agents, transcript, result, call, fp>>

\* do_POST reads the command and calls process_command.
do_POST(h) ==
  /\ h.pc = "handle"
  /\ h.request.method = "POST"
  /\ goto(h, "process_command")
  /\ UNCHANGED <<agents, transcript, result, call, fp>>

\* new game: self.reset()
process_command_reset(h) ==
  /\ h.pc = "process_command"
  /\ h.request.kind = "new game"
  /\ agents' = {}
  /\ transcript' = NoTranscript
  /\ goto(h, "add Ann")
  /\ UNCHANGED <<result, call, fp>>

\* new game: self.agents.add(Agent(name)); a set keeps the agent of that
\* name it already has.
process_command_add(h, name, next) ==
  /\ h.pc = "add " \o name
  /\ agents' = IF \E a \in agents : a.name = name
                THEN agents
                ELSE agents \cup {Agent(name, DefaultIntelligence)}
  /\ result' = IF next = "append" THEN Message("startup") ELSE result
  /\ goto(h, next)
  /\ UNCHANGED <<transcript, call, fp>>

\* asserts: the lookup and agent.asserts(sentence)
process_command_asserts(h) ==
  /\ h.pc = "process_command"
  /\ h.request.kind = "asserts"
  /\ LET agent == agent_named(h.request.agent_name)
     IN IF agent = None
        THEN /\ result' = Message("not_found")
             /\ goto(h, "append")
             /\ UNCHANGED agents
        ELSE /\ agents' = mutated(agent, Agent_asserts(agent, h.request.sentence))
             /\ goto(h, "score_all")
             /\ UNCHANGED result
  /\ UNCHANGED <<transcript, call, fp>>

\* The handler's next statement is result = self.score_all().
scoring(h) ==
  \/ h.pc = "score_all"
  \/ h.pc = "process_command" /\ h.request.kind = "score"

process_command_score_all(h) ==
  /\ scoring(h)
  /\ result' = Message("score_all")
  /\ goto(h, "append")
  /\ UNCHANGED <<agents, transcript, call, fp>>

\* self.transcript.append((inp, result)); return result
process_command_append(h) ==
  /\ h.pc = "append"
  /\ transcript' = transcript_append(transcript.len, h.request.kind)
  /\ goto(h, "respond")
  /\ UNCHANGED <<agents, result, call, fp>>

\* do_POST writes the response; the handler ends.
respond(h) ==
  /\ h.pc = "respond"
  /\ finish(h)
  /\ UNCHANGED <<agents, transcript, result, call, fp>>

NextWeb ==
  \/ \E request \in WebRequestIn : Connect(request)
  \/ \E request \in WebRequestIn : process_request(request)
  \/ \E h \in httpd.handling : do_GET(h)
  \/ \E h \in httpd.handling : do_POST(h)
  \/ \E h \in httpd.handling : process_command_reset(h)
  \/ \E h \in httpd.handling : process_command_add(h, "Ann", "add Bob")
  \/ \E h \in httpd.handling : process_command_add(h, "Bob", "append")
  \/ \E h \in httpd.handling : process_command_asserts(h)
  \/ \E h \in httpd.handling : process_command_score_all(h)
  \/ \E h \in httpd.handling : process_command_append(h)
  \/ \E h \in httpd.handling : respond(h)

SpecWeb == InitWeb /\ [][NextWeb]_vars

(***************************************************************************)
(* Properties                                                              *)
(***************************************************************************)
Ann == agent_named("Ann")
Bob == agent_named("Bob")

\* C1: fixed_point(s, times, f) applies f at most `times` times and then
\* returns a value, for every bound, start set and step function.  Stated of
\* the invocations: func has been applied at most times0 times, and no
\* invocation ends in an error instead of a return.
C1_FixedPointReturns ==
  /\ fp.calls <= fp.times0
  /\ fp.pc \in { "call", "return" }

\* C2: after `new game`, Bob asserting "A is red" leaves "A is red" and
\* "A is colored" in commitments(Bob, Bob); Ann then challenging Bob's
\* entitlement to "A is red" leaves it out of all_unchallenged_assertions().
C2_AfterAssert ==
  { Agent("Ann", DefaultIntelligence), Agent_asserts(Agent("Bob", DefaultIntelligence), Red) }

C2_EndToEnd ==
  [][ /\ (result.kind = "startup" /\ Asserts("Bob", Red))
         => ({Red, Colored} \subseteq commitments(Bob, Bob))'
      /\ (agents = C2_AfterAssert /\ Challenges("Ann", "Bob", Red))
         => (Red \notin all_unchallenged_assertions)' ]_vars

\* The state the three commands of C2 end in.
C2_Witness ==
  /\ transcript = [len |-> 3, inp |-> "challenges"]
  /\ result.kind = "score_all"
  /\ agents = { [ Agent("Ann", DefaultIntelligence) EXCEPT
                    !.challenges_issued = { [target |-> "Bob", sentence |-> Red] } ],
                [ Agent("Bob", DefaultIntelligence) EXCEPT !.commitments_avowed = {Red} ] }
  /\ Red \notin all_unchallenged_assertions

\* The antecedent of C3: Ann can draw "A is colored" from "A is red", Bob has
\* avowed "A is red" and accepts no committive inference to "A is colored".
C3_Case(ann, bob) ==
  /\ ann.name = "Ann"
  /\ bob.name = "Bob"
  /\ Inference({Red}, Colored) \in ann.committive_inferences
  /\ ann.intelligence >= 1
  /\ Red \in bob.commitments_avowed
  /\ \A inference \in bob.committive_inferences : inference.conclusion # Colored

\* C3 as claimed: in that case "A is colored" is in commitments(Ann, Bob) and
\* not in commitments(Bob, Bob).
C3_Original ==
  \A ann \in agents, bob \in agents :
    C3_Case(ann, bob) =>
      /\ Colored \in commitments(ann, bob)
      /\ Colored \notin commitments(bob, bob)

\* C3 (amended): the same, provided Bob has not himself avowed "A is colored".
C3_Asymmetric ==
  \A ann \in agents, bob \in agents :
    (C3_Case(ann, bob) /\ Colored \notin bob.commitments_avowed) =>
      /\ Colored \in commitments(ann, bob)
      /\ Colored \notin commitments(bob, bob)

C3_Witness ==
  \E ann \in agents, bob \in agents :
    /\ C3_Case(ann, bob)
    /\ Colored \notin bob.commitments_avowed
    /\ Colored \in commitments(ann, bob)
    /\ Colored \notin commitments(bob, bob)

\* Some agent of the game holds a challenge to x's entitlement to sentence.
C4_Challenged(x, sentence) ==
  \E y \in agents : Challenge(x, sentence) \in y.challenges_issued

\* C4 as claimed: a sentence x has avowed and is challenged on is not in
\* all_unchallenged_assertions().
C4_Original ==
  \A x \in agents : \A sentence \in x.commitments_avowed :
    C4_Challenged(x, sentence) => sentence \notin all_unchallenged_assertions

\* C4 (amended): such a sentence is not in assertions_unchallenged(x), and it
\* is in all_unchallenged_assertions() exactly when another agent of the game
\* has avowed it and is not challenged on it.
C4_ChallengedExcluded ==
  \A x \in agents : \A sentence \in x.commitments_avowed :
    C4_Challenged(x, sentence) =>
      /\ sentence \notin assertions_unchallenged(x)
      /\ sentence \in all_unchallenged_assertions
           <=> \E z \in agents \ {x} : /\ sentence \in z.commitments_avowed
                                       /\ ~C4_Challenged(z, sentence)

C4_Witness ==
  \E x \in agents : \E sentence \in x.commitments_avowed :
    /\ C4_Challenged(x, sentence)
    /\ sentence \notin all_unchallenged_assertions

\* The antecedent of C5 for a permissive inference of the scorekeeper: a
\* premise is entitled but not committed, and the conclusion is neither in
\* the entitlement base nor the conclusion of another inference of the
\* scorekeeper (a committive one, or a different permissive one).
C5_Case(scorekeeper, other, inference) ==
  /\ inference \in scorekeeper.permissive_inferences
  /\ LET ents == entitlements(scorekeeper, other)
         coms == commitments(scorekeeper, other)
     IN \E premise \in inference.premises :
          /\ premise \in ents
          /\ premise \notin coms
  /\ inference.conclusion \notin entitlement_base(scorekeeper, other)
  /\ \A another \in scorekeeper.committive_inferences
                    \cup (scorekeeper.permissive_inferences \ {inference}) :
       another.conclusion # inference.conclusion

\* C5: in that case the conclusion is not in entitlements(scorekeeper, other).
C5_PermissiveGating ==
  \A scorekeeper \in agents, other \in agents :
    \A inference \in scorekeeper.permissive_inferences :
      C5_Case(scorekeeper, other, inference) =>
        inference.conclusion \notin entitlements(scorekeeper, other)

\* "A is fragrant" is entitled but not committed, "A is red" is both, and
\* "A is edible" stays out of the entitlements.
C5_Witness ==
  \E scorekeeper \in agents, other \in agents :
    /\ C5_Case(scorekeeper, other, Inference({Red, Fragrant}, Edible))
    /\ Red \in entitlements(scorekeeper, other) \cap commitments(scorekeeper, other)
    /\ Fragrant \in entitlements(scorekeeper, other)
    /\ Edible \notin entitlements(scorekeeper, other)

\* A call of compatible_with that has returned.
C6_Returned == call.op = "compatible_with" /\ call.pc = "return"

\* C6: compatible_with returns false if and only if some declared
\* incompatibility set is within commitments + {sentence} and not within the
\* commitments; with the one set {"A is red", "A is blue"} and commitments
\* {"A is red"} it is false for "A is blue" and true for "A is colored".
C6_CompatibleWith ==
  C6_Returned =>
    /\ call.ret = FALSE
         <=> \E i \in 1..Len(call.incompatibilities) :
               /\ call.incompatibilities[i] \subseteq (call.commitments \cup {call.sentence})
               /\ ~(call.incompatibilities[i] \subseteq call.commitments)
    /\ (call.incompatibilities = << {Red, Blue} >> /\ call.commitments = {Red})
         => /\ call.sentence = Blue => call.ret = FALSE
            /\ call.sentence = Colored => call.ret = TRUE

\* A set that is already within the commitments stands before the one the
\* sentence completes; the call returns false.
C6_Witness ==
  /\ C6_Returned
  /\ call.incompatibilities = << {Red}, {Red, Blue} >>
  /\ call.commitments = {Red}
  /\ call.sentence = Blue
  /\ call.ret = FALSE

\* A call of consequences_once that has returned.
C7_Returned == call.op = "consequences_once" /\ call.pc = "return"

\* C7: consequences_once returns exactly the basis together with the
\* conclusions of the inferences whose premises are all in the basis; an
\* inference without premises always fires.
C7_ConsequencesOnce ==
  C7_Returned =>
    /\ call.ret = call.basis \cup
                  { inference.conclusion :
                      inference \in { i \in call.inferences : i.premises \subseteq call.basis } }
    /\ \A inference \in call.inferences :
         inference.premises = {} => inference.conclusion \in call.ret

\* One inference without premises fires, one with a premise outside the basis
\* does not.
C7_Witness ==
  /\ C7_Returned
  /\ call.inferences = { Inference({}, Colored), Inference({Red, Blue}, Blue) }
  /\ call.basis = {Red}
  /\ call.ret = {Red, Colored}

\* C8: consequences_once is inflationary and monotone: the result contains
\* the basis, and it is contained in the result for every larger basis.
C8_InflationaryMonotone ==
  C7_Returned =>
    /\ call.basis \subseteq call.ret
    /\ \A larger \in SUBSET FnSentences :
         call.basis \subseteq larger
           => call.ret \subseteq consequences_once(call.inferences, larger)

\* A call that added a conclusion to a non-empty basis.
C8_Witness ==
  /\ C7_Returned
  /\ call.basis = {Red}
  /\ call.inferences = { Inference({Red}, Colored) }
  /\ call.ret = {Red, Colored}

\* The command left every agent as it was and answered with the scores.
C9_NoChange == agents' = agents /\ result'.kind = "score_all"

C10_RemoveIdempotent ==
  [][ \A name \in NameIn, sentences \in IncompatibilityIn :
        (agent_named(name) # None /\ RemovesIncompatibility(name, sentences))
          => ( /\ ~list_contains(agent_named(name).incompatibilities, sentences)
               /\ Agent_removes_incompatibility(agent_named(name), sentences)
                    = agent_named(name) )' ]_vars

\* The command was rejected as NotAsserted and changed no agent.
C11_Rejected == agents' = agents /\ result'.kind = "not_asserted"

\* C11: a disavow of a sentence the agent has not avowed, and a challenge on
\* a sentence the target has not avowed, are rejected as NotAsserted and
\* change no agent; and whenever a challenge appears in an agent's
\* challenges_issued, its sentence was among the target's avowed commitments
\* in the state the command was given in.
C11_NotAsserted ==
  [][ /\ \A name \in DeepNameIn, sentence \in DeepSentenceIn :
           ( /\ agent_named(name) # None
             /\ sentence \notin agent_named(name).commitments_avowed
             /\ Disavows(name, sentence) ) => C11_Rejected
      /\ \A name \in DeepNameIn, target \in DeepNameIn, sentence \in DeepSentenceIn :
           ( /\ agent_named(name) # None
             /\ agent_named(target) # None
             /\ sentence \notin agent_named(target).commitments_avowed
             /\ Challenges(name, target, sentence) ) => C11_Rejected
      /\ \A after \in agents' : \A c \in after.challenges_issued :
           (\A before \in agents :
              before.name = after.name => c \notin before.challenges_issued)
             => \E target \in agents : /\ target.name = c.target
                                       /\ c.sentence \in target.commitments_avowed ]_vars

\* Bob, who has asserted "A is red" only, was challenged on "A is colored": the
\* third command of the game was rejected and no challenge is recorded.
C11_Witness ==
  /\ transcript = [len |-> 3, inp |-> "challenges"]
  /\ result.kind = "not_asserted"
  /\ agents = { Agent("Ann", DefaultIntelligence),
                [ Agent("Bob", DefaultIntelligence) EXCEPT !.commitments_avowed = {Red} ] }

\* No two agents of the game have names that are equal ignoring case.
C12_Unique ==
  \A a \in agents, b \in agents : Lower(a.name) = Lower(b.name) => a = b

\* C12: after any sequence of commands no two agents have names that are
\* equal ignoring case, and `add agent` with a name that collides with an
\* agent's name ignoring case reports AlreadyExists and leaves the agent set
\* and every agent as they were.
C12_UniqueNames ==
  /\ []C12_Unique
  /\ [][ \A name \in NameIn :
            ( /\ \E a \in agents : Lower(a.name) = Lower(name)
              /\ \E intelligence \in IntelligenceIn \cup {DefaultIntelligence} :
                   AddAgent(name, intelligence) )
              => /\ agents' = agents
                 /\ result'.kind = "already_exists" ]_vars

\* `add agent ann` in a game of Ann and Bob, where Bob has asserted
\* "A is red": rejected, and Ann and Bob are as they were.
C12_Witness ==
  /\ transcript = [len |-> 2, inp |-> "add agent"]
  /\ result.kind = "already_exists"
  /\ agents = { Agent("Ann", DefaultIntelligence),
                [ Agent("Bob", DefaultIntelligence) EXCEPT !.commitments_avowed = {Red} ] }

\* No agent of the game has this name, ignoring case.
C13_Absent(name) == \A a \in agents : Lower(a.name) # Lower(name)

\* The command reported that the agent is not there and changed nothing.
C13_NotFound == agents' = agents /\ result'.kind \in { "not_found", "no_agent" }

\* C13: a command that names an agent with no match in the game, ignoring
\* case, reports a not-found outcome and leaves the agent set and every agent
\* unchanged.  One conjunct per command, each for the step that appended that
\* command to the transcript.
C13_AgentNotFound ==
  [][ /\ transcript'.inp = "asserts" =>
           \A name \in NameIn, sentence \in SentenceIn :
             (C13_Absent(name) /\ Asserts(name, sentence)) => C13_NotFound
      /\ transcript'.inp = "disavows" =>
           \A name \in NameIn, sentence \in SentenceIn :
             (C13_Absent(name) /\ Disavows(name, sentence)) => C13_NotFound
      /\ transcript'.inp = "challenges" =>
           \A name \in NameIn, target \in NameIn, sentence \in SentenceIn :
             ( /\ C13_Absent(name) \/ C13_Absent(target)
               /\ Challenges(name, target, sentence) ) => C13_NotFound
      /\ transcript'.inp = "withdraws" =>
           \A name \in NameIn, target \in NameIn, sentence \in SentenceIn :
             ( /\ C13_Absent(name) \/ C13_Absent(target)
               /\ Withdraws(name, target, sentence) ) => C13_NotFound
      /\ transcript'.inp = "adds inference" =>
           \A name \in NameIn, kind \in InferenceKindIn, inference \in InferenceIn :
             (C13_Absent(name) /\ AddsInference(name, kind, inference)) => C13_NotFound
      /\ transcript'.inp = "removes inference" =>
           \A name \in NameIn, kind \in InferenceKindIn, inference \in InferenceIn :
             (C13_Absent(name) /\ RemovesInference(name, kind, inference)) => C13_NotFound
      /\ transcript'.inp = "adds incompatibility" =>
           \A name \in NameIn, sentences \in IncompatibilityIn :
             (C13_Absent(name) /\ AddsIncompatibility(name, sentences)) => C13_NotFound
      /\ transcript'.inp = "removes incompatibility" =>
           \A name \in NameIn, sentences \in IncompatibilityIn :
             (C13_Absent(name) /\ RemovesIncompatibility(name, sentences)) => C13_NotFound
      /\ transcript'.inp = "score on" =>
           \A sk \in NameIn, ot \in NameIn :
             ( /\ C13_Absent(sk) \/ C13_Absent(ot)
               /\ Score(sk, ot) ) => C13_NotFound
      /\ transcript'.inp = "remove agent" =>
           \A name \in NameIn :
             (C13_Absent(name) /\ RemoveAgent(name)) => C13_NotFound
      /\ transcript'.inp = "set intelligence" =>
           \A name \in NameIn, intelligence \in IntelligenceIn :
             (C13_Absent(name) /\ SetIntelligence(name, intelligence)) => C13_NotFound ]_vars

\* After Bob's assertion of "A is red", an assertion by a name that is not in
\* the game (Sal): not found, Ann and Bob as they were.
C13_Witness ==
  /\ transcript = [len |-> 2, inp |-> "asserts"]
  /\ result.kind = "not_found"
  /\ agents = { Agent("Ann", DefaultIntelligence),
                [ Agent("Bob", DefaultIntelligence) EXCEPT !.commitments_avowed = {Red} ] }

\* C14: the scoring operations only read: a `score` or `X's score on Y`
\* command, which computes commitments, entitlements and incompatibles
\* through score and score_all, leaves the agent set and every agent's
\* avowed commitments, inferences, incompatibilities, challenges and
\* intelligence exactly as they were.
C14_ScoringReadsOnly ==
  [][ transcript'.inp \in { "score", "score on" } => agents' = agents ]_vars

\* Bob has asserted "A is red" and a pair was scored: "A is colored" is among
\* the commitments Ann attributes to Bob, and Bob's avowed commitments are
\* still "A is red" alone.
C14_Witness ==
  /\ transcript = [len |-> 2, inp |-> "score on"]
  /\ result.kind = "score"
  /\ agents = { Agent("Ann", DefaultIntelligence),
                [ Agent("Bob", DefaultIntelligence) EXCEPT !.commitments_avowed = {Red} ] }
  /\ Colored \in commitments(Ann, Bob)

\* The place of a name in the order sorted() puts names in.
C15_Rank(name) == CHOOSE i \in 1..Len(NameOrder) : NameOrder[i] = name

\* C15: score_all() holds exactly one entry for every ordered pair of agents
\* of the game, self-pairs included (n * n entries for n agents), in the
\* order of the scorekeeper's name and, for one scorekeeper, of the other's
\* name; each entry is score(scorekeeper, other) on the current state.
C15_ScoreAll ==
  LET out == score_all
      n == Cardinality(agents)
  IN /\ Len(out) = n * n
     /\ \A sk \in agents, ot \in agents :
          \E k \in 1..Len(out) :
            /\ out[k] = score(sk, ot)
            /\ \A l \in 1..Len(out) :
                 (out[l].scorekeeper = sk.name /\ out[l].other = ot.name) => l = k
     /\ \A k \in 1..Len(out), l \in 1..Len(out) :
          k < l =>
            \/ C15_Rank(out[k].scorekeeper) < C15_Rank(out[l].scorekeeper)
            \/ /\ out[k].scorekeeper = out[l].scorekeeper
               /\ C15_Rank(out[k].other) < C15_Rank(out[l].other)

\* Three agents, nine entries: the third is Ann's score on Sal, who has
\* asserted "A is red", and the seventh is Sal's score on Ann.
C15_Witness ==
  /\ { a.name : a \in agents } = { "Ann", "Bob", "Sal" }
  /\ Len(score_all) = 9
  /\ score_all[3].scorekeeper = "Ann" /\ score_all[3].other = "Sal"
  /\ score_all[3].commitments = {Red, Colored}
  /\ score_all[7].scorekeeper = "Sal" /\ score_all[7].other = "Ann"
  /\ score_all[7].commitments = {}

\* The incompatibility sets an agent declares.
C16_Declared(agent) ==
  { agent.incompatibilities[i] : i \in 1..Len(agent.incompatibilities) }

\* C16: incompatibles(scorekeeper, other) is exactly the set of the
\* incompatibility sets the scorekeeper declares that are within
\* commitments(scorekeeper, other); a set only other agents declare is never
\* in it, and every set in it is within the commitments of the same score.
C16_Incompatibles ==
  \A scorekeeper \in agents, other \in agents :
    LET triple == score(scorekeeper, other)
    IN /\ incompatibles(scorekeeper, other)
            = { inc \in C16_Declared(scorekeeper) :
                  inc \subseteq commitments(scorekeeper, other) }
       /\ triple.incompatibles = incompatibles(scorekeeper, other)
       /\ \A inc \in triple.incompatibles :
            /\ inc \in C16_Declared(scorekeeper)
            /\ inc \subseteq triple.commitments

\* Bob has asserted "A is red" and "A is blue"; Ann no longer declares the
\* two incompatible and Bob does: the set is in Bob's score on himself and
\* not in Ann's score on him.
C16_Witness ==
  /\ Ann # None /\ Bob # None
  /\ {Red, Blue} \in C16_Declared(Bob) \ C16_Declared(Ann)
  /\ {Red, Blue} \subseteq commitments(Ann, Bob)
  /\ incompatibles(Bob, Bob) = { {Red, Blue} }
  /\ incompatibles(Ann, Bob) = {}

\* func applied k times to s.
RECURSIVE C17_Applied(_, _, _)
C17_Applied(func, s, k) ==
  IF k = 0 THEN s ELSE C17_Applied(func, apply_func(func, s), k - 1)

\* The smaller of `times` and the first index i at which applying func once
\* more changes nothing, counted from i on.
RECURSIVE C17_Index(_, _, _, _)
C17_Index(func, s, times, i) ==
  IF i = times \/ apply_func(func, s) = s THEN i
  ELSE C17_Index(func, apply_func(func, s), times, i + 1)

\* What C17 says of a value that fixed_point returned.
C17_ValueReturned ==
  fp.pc = "return" =>
    /\ fp.ret = C17_Applied(fp.func, fp.s0, C17_Index(fp.func, fp.s0, fp.times0, 0))
    /\ \/ apply_func(fp.func, fp.ret) = fp.ret
       \/ fp.ret = C17_Applied(fp.func, fp.s0, fp.times0)

\* C17: fixed_point(s, times, f) returns f applied k times to s, k being the
\* smaller of `times` and the first index at which f changes nothing more;
\* so every call ends by returning a value that f leaves as it is or that
\* `times` applications of f produced.
C17_FixedPointValue ==
  /\ fp.pc \in { "call", "return" }
  /\ C17_ValueReturned

\* The unchallenged assertions of all agents that are compatible with what
\* the scorekeeper takes the other to be committed to.
C18_PrunedBase(scorekeeper, other) ==
  { s \in all_unchallenged_assertions :
      compatible_with(scorekeeper.incompatibilities, commitments(scorekeeper, other), s) }

\* C18: commitments(scorekeeper, other) is bounded by the scorekeeper's
\* intelligence and the expansion of entitlements(scorekeeper, other) by the
\* other's.  With scorekeeper.intelligence = 0 the commitments are the
\* other's avowed commitments, and with 1 one round of the scorekeeper's
\* committive inferences on them, whatever the other's intelligence; with
\* other.intelligence = 0 the entitlements are the pruned base, and with 1
\* one expansion step on it, whatever the scorekeeper's intelligence.
C18_IterationBounds ==
  \A scorekeeper \in agents, other \in agents :
    /\ scorekeeper.intelligence = 0 =>
         commitments(scorekeeper, other) = other.commitments_avowed
    /\ scorekeeper.intelligence = 1 =>
         commitments(scorekeeper, other)
           = consequences_once(scorekeeper.committive_inferences, other.commitments_avowed)
    /\ other.intelligence = 0 =>
         entitlements(scorekeeper, other) = C18_PrunedBase(scorekeeper, other)
    /\ other.intelligence = 1 =>
         entitlements(scorekeeper, other)
           = expand_entitlements(commitments(scorekeeper, other),
                                 C18_PrunedBase(scorekeeper, other),
                                 scorekeeper.incompatibilities,
                                 scorekeeper.committive_inferences,
                                 scorekeeper.permissive_inferences, 1)

\* Ann's intelligence is 0, Bob's is the default, and Bob has asserted
\* "A is red": Ann attributes "A is red" alone to Bob, Bob attributes
\* "A is colored" to himself too; Bob's entitlements for Ann are the base,
\* his entitlements for himself are expanded.
C18_Witness ==
  /\ Ann # None /\ Bob # None
  /\ Ann.intelligence = 0 /\ Bob.intelligence = DefaultIntelligence
  /\ Bob.commitments_avowed = {Red}
  /\ commitments(Ann, Bob) = {Red}
  /\ commitments(Bob, Bob) = {Red, Colored}
  /\ entitlements(Bob, Ann) = {Red}
  /\ entitlements(Bob, Bob) = {Red, Colored}

\* The sentences an agent has avowed and no agent of the game has challenged
\* that agent's entitlement to.
C19_Unchallenged(agent) ==
  { s \in agent.commitments_avowed :
      \A y \in agents : [target |-> agent.name, sentence |-> s] \notin y.challenges_issued }

\* The sentence is compatible with what the scorekeeper takes the other to
\* be committed to.
C19_Compatible(scorekeeper, other, s) ==
  compatible_with(scorekeeper.incompatibilities, commitments(scorekeeper, other), s)

\* C19: entitlements(scorekeeper, other) is expanded from the union over all
\* agents of the game of their unchallenged avowed assertions, filtered by
\* compatible_with against the scorekeeper's incompatibilities and
\* commitments(scorekeeper, other); so an unchallenged assertion of any agent,
\* a third one included, is in entitlements(scorekeeper, other) whenever it
\* is compatible with commitments(scorekeeper, other).
C19_EntitlementBase ==
  \A scorekeeper \in agents, other \in agents :
    LET base == { s \in UNION { C19_Unchallenged(z) : z \in agents } :
                    C19_Compatible(scorekeeper, other, s) }
    IN /\ entitlements(scorekeeper, other)
            = fixed_point(base, other.intelligence,
                          entitlements_lambda(commitments(scorekeeper, other),
                                              scorekeeper.incompatibilities,
                                              scorekeeper.committive_inferences,
                                              scorekeeper.permissive_inferences,
                                              other.intelligence))
       /\ \A z \in agents : \A s \in C19_Unchallenged(z) :
            C19_Compatible(scorekeeper, other, s)
              => s \in entitlements(scorekeeper, other)

\* Sal alone has asserted "A is red", unchallenged, and Bob has asserted
\* "A is blue": "A is red" is among the entitlements Ann attributes to
\* herself, and not among those she attributes to Bob, with whose
\* commitments it is incompatible.
C19_Witness ==
  /\ Ann # None /\ Bob # None /\ agent_named("Sal") # None
  /\ \A z \in agents : Red \in z.commitments_avowed <=> z.name = "Sal"
  /\ Red \in C19_Unchallenged(agent_named("Sal"))
  /\ Bob.commitments_avowed = {Blue}
  /\ Red \in entitlements(Ann, Ann)
  /\ Red \notin entitlements(Ann, Bob)

\* The commitments the scorekeeper attributes to the other are closed under
\* the scorekeeper's committive inferences.
C20_Closed(scorekeeper, other) ==
  \A inference \in scorekeeper.committive_inferences :
    inference.premises \subseteq commitments(scorekeeper, other)
      => inference.conclusion \in commitments(scorekeeper, other)

\* C20 as claimed: in every reachable state the commitments are closed, for
\* every scorekeeper and other.
C20_Original ==
  \A scorekeeper \in agents, other \in agents : C20_Closed(scorekeeper, other)

\* The conclusions of the scorekeeper's committive inferences that the other
\* has not avowed: what the iteration can add.
C20_Addable(scorekeeper, other) ==
  { inference.conclusion : inference \in scorekeeper.committive_inferences }
    \ other.commitments_avowed

\* C20 (amended): the commitments are closed for every scorekeeper whose
\* intelligence is at least the number of conclusions of its committive
\* inferences that the other has not avowed.
C20_ClosedWithinBound ==
  \A scorekeeper \in agents, other \in agents :
    scorekeeper.intelligence >= Cardinality(C20_Addable(scorekeeper, other))
      => C20_Closed(scorekeeper, other)

\* Ann's intelligence is 1, she holds the default committive inferences and
\* Bob has asserted "A is red": one conclusion can be added, one round adds
\* it, and the commitments Ann attributes to Bob are closed.
C20_Witness ==
  /\ Ann # None /\ Bob # None
  /\ Ann.intelligence = 1
  /\ Bob.commitments_avowed = {Red}
  /\ Ann.committive_inferences = DefaultCommittive
  /\ Cardinality(C20_Addable(Ann, Bob)) = 1
  /\ commitments(Ann, Bob) = {Red, Colored}
  /\ C20_Closed(Ann, Bob)

\* The agents that hold a challenge to the named agent's entitlement to the
\* sentence, by name, in the state before and after a step.
C21_Challengers(name, sentence) ==
  { y.name : y \in { a \in agents :
                       [target |-> name, sentence |-> sentence] \in a.challenges_issued } }

\* C21: a challenge is not retracted when its target disavows the sentence:
\* a disavowal leaves every challenge to the disavowed sentence with its
\* issuer, and when the target asserts the sentence again it is left out of
\* assertions_unchallenged(target) at once, the challenges being the same as
\* before the assertion.
C21_ChallengeSurvivesDisavowal ==
  [][ /\ transcript'.inp = "disavows" =>
           \A name \in DeepNameIn, sentence \in DeepSentenceIn :
             ( /\ agent_named(name) # None
               /\ sentence \in agent_named(name).commitments_avowed
               /\ Disavows(name, sentence) )
               => /\ C21_Challengers(name, sentence)' = C21_Challengers(name, sentence)
                  /\ sentence \notin agent_named(name)'.commitments_avowed
      /\ transcript'.inp = "asserts" =>
           \A name \in DeepNameIn, sentence \in DeepSentenceIn :
             ( /\ agent_named(name) # None
               /\ sentence \notin agent_named(name).commitments_avowed
               /\ C21_Challengers(name, sentence) # {}
               /\ Asserts(name, sentence) )
               => /\ sentence \in agent_named(name)'.commitments_avowed
                  /\ sentence \notin assertions_unchallenged(agent_named(name))'
                  /\ \A a \in agents : \E b \in agents' :
                       a.name = b.name /\ a.challenges_issued = b.challenges_issued ]_vars

\* Bob has just disavowed the one sentence he had asserted, and Ann still
\* holds her challenge to his entitlement to "A is red".
C21_Witness ==
  /\ transcript.inp = "disavows"
  /\ result.kind = "score_all"
  /\ Ann # None /\ Bob # None
  /\ Bob.commitments_avowed = {}
  /\ Ann.challenges_issued = { [target |-> "Bob", sentence |-> Red] }

\* The agents in the game that hold a challenge to the agent's entitlement
\* to the sentence.
C22_Holders(agent, sentence) ==
  { a \in agents : \E c \in a.challenges_issued :
                     c.target = agent.name /\ c.sentence = sentence }

C22_Iff ==
  \A x \in agents : \A sentence \in x.commitments_avowed :
    sentence \notin assertions_unchallenged(x) <=> C22_Holders(x, sentence) # {}

\* The two cases of C22, step by step.
C22_Steps ==
  /\ transcript'.inp = "withdraws" =>
       \A y \in agents, x \in agents, sentence \in DeepSentenceIn :
         ( /\ sentence \in x.commitments_avowed
           /\ y \in C22_Holders(x, sentence)
           /\ C22_Holders(x, sentence) # {y}
           /\ Withdraws(y.name, x.name, sentence) )
           => /\ sentence \in agent_named(x.name)'.commitments_avowed
              /\ sentence \notin assertions_unchallenged(agent_named(x.name))'
              /\ \A a \in agents' : a.name = y.name =>
                   [target |-> x.name, sentence |-> sentence] \notin a.challenges_issued
  /\ transcript'.inp = "remove agent" =>
       \A y \in agents, x \in agents, sentence \in DeepSentenceIn :
         ( /\ x # y
           /\ sentence \in x.commitments_avowed
           /\ C22_Holders(x, sentence) = {y}
           /\ RemoveAgent(y.name) )
           => /\ sentence \notin assertions_unchallenged(x)
              /\ sentence \in assertions_unchallenged(agent_named(x.name))'

\* C22: an avowed sentence is left out of assertions_unchallenged(X) exactly
\* when some agent in the game holds Challenge(X, s); a withdrawal by one of
\* two challengers leaves the sentence challenged, and the removal of the
\* only challenger from the game makes it unchallenged again.
C22_ChallengedIffHeld == []C22_Iff /\ [][C22_Steps]_vars

\* Ann has just withdrawn; Bob has avowed "A is red", and the challenge to it
\* that Bob himself holds keeps it out of his unchallenged assertions.
C22_Witness ==
  /\ transcript.inp = "withdraws"
  /\ result.kind = "score_all"
  /\ Ann # None /\ Bob # None
  /\ Red \in Bob.commitments_avowed
  /\ Ann.challenges_issued = {}
  /\ [target |-> "Bob", sentence |-> Red] \in Bob.challenges_issued
  /\ Red \notin assertions_unchallenged(Bob)

\* The incompatibility sets the agent declares.
C23_Declared(agent) ==
  { agent.incompatibilities[i] : i \in 1..Len(agent.incompatibilities) }

\* No set declared by the scorekeeper has the sentence as its only member
\* outside the commitments.
C23_Alone(scorekeeper, coms, sentence) ==
  \A inc \in C23_Declared(scorekeeper) : inc \ coms # {sentence}

\* C23: pruning is not maximal.  A candidate is dropped only when it alone
\* completes a declared set together with the commitments, so when all the
\* members of a set declared by the scorekeeper are unchallenged assertions
\* and each of them passes that test, the whole set is within
\* entitlements(scorekeeper, other), two members outside the commitments
\* included.
C23_NonMaximalPruning ==
  \A scorekeeper \in agents, other \in agents :
    LET coms == commitments(scorekeeper, other)
        base == entitlement_base(scorekeeper, other)
        ents == entitlements(scorekeeper, other)
    IN /\ base = { s \in all_unchallenged_assertions : C23_Alone(scorekeeper, coms, s) }
       /\ \A inc \in C23_Declared(scorekeeper) :
            ( /\ inc \subseteq all_unchallenged_assertions
              /\ \A s \in inc : C23_Alone(scorekeeper, coms, s) )
              => inc \subseteq base /\ inc \subseteq ents

\* Ann declares that red and blue are incompatible, attributes neither to
\* Bob as a commitment, and holds Bob entitled to both.
C23_Witness ==
  /\ Ann # None /\ Bob # None
  /\ {Red, Blue} \in C23_Declared(Ann)
  /\ commitments(Ann, Bob) \cap {Red, Blue} = {}
  /\ {Red, Blue} \subseteq entitlements(Ann, Bob)

\* The challenges to the named agent that the agents of the game hold, each
\* with the name of its holder.
C24_Against(name) ==
  { <<a.name, c>> : a \in agents, c \in { [target |-> name, sentence |-> s] :
                                            s \in DeepSentenceIn } } \cap
  UNION { { <<a.name, c>> : c \in a.challenges_issued } : a \in agents }

C24_Steps ==
  /\ transcript'.inp = "remove agent" =>
       \A name \in DeepNameIn :
         ( agent_named(name) # None /\ RemoveAgent(name) )
           => /\ agent_named(name)' = None
              /\ \A a \in agents \ {agent_named(name)} : a \in agents'
              /\ C24_Against(name)' =
                   { h \in C24_Against(name) : h[1] # agent_named(name).name }
  /\ transcript'.inp = "add agent" =>
       \A name \in DeepNameIn :
         ( agent_named(name) = None /\ AddAgent(name, DefaultIntelligence) )
           => /\ agent_named(name)' = Agent(name, DefaultIntelligence)
              /\ C24_Against(name)' = C24_Against(name)
  /\ transcript'.inp = "asserts" =>
       \A name \in DeepNameIn, sentence \in DeepSentenceIn :
         ( /\ agent_named(name) # None
           /\ \E h \in C24_Against(name) : h[2].sentence = sentence /\ h[1] # name
           /\ Asserts(name, sentence) )
           => /\ sentence \in assertions_challenged(agent_named(name))'
              /\ sentence \notin assertions_unchallenged(agent_named(name))'
              /\ C24_Against(name)' = C24_Against(name)

\* C24: remove agent leaves the challenges that other agents issued against
\* the removed agent with their issuers; add agent with the same name takes
\* none of them away; and when the new agent asserts the challenged
\* sentence it is left out of its unchallenged assertions, no challenge
\* having been issued since.
C24_DanglingChallenge == [][C24_Steps]_vars

\* Bob has just been added anew, with nothing asserted, and Ann holds a
\* challenge to Bob's entitlement to "A is red" from before his removal.
C24_Witness ==
  /\ transcript.inp = "add agent"
  /\ result.kind = "added"
  /\ Ann # None
  /\ Bob = Agent("Bob", DefaultIntelligence)
  /\ [target |-> "Bob", sentence |-> Red] \in Ann.challenges_issued

\* C25: in web mode commands are processed one at a time.  At most one
\* handler has begun and not yet answered, so no two process_command
\* executions interleave, and a handler about to run score_all finds the
\* agents as a finished command left them: none, or Ann and Bob both, never
\* the lone Ann of a new game half done.
C25_OneAtATime ==
  /\ httpd.serving
  /\ \A h \in httpd.handling : httpd.handling = {h}
  /\ \A h \in httpd.handling :
       scoring(h) => { a.name : a \in agents } \in { {}, {"Ann", "Bob"} }

\* A handler is about to score Ann's assertion while a new game request
\* waits on the socket.
C25_Witness ==
  /\ \E h \in httpd.handling : h.pc = "score_all"
  /\ \E request \in httpd.pending : request.kind = "new game"

\* The list with its entries at i and i + 1 exchanged, for every i, and the
\* list read backwards: rearrangements of the same declarations.
C26_Rearranged(list) ==
  { [ k \in 1..Len(list) |-> IF k = i THEN list[i + 1]
                               ELSE IF k = i + 1 THEN list[i] ELSE list[k] ] :
      i \in 1..(Len(list) - 1) }
  \cup { [ k \in 1..Len(list) |-> list[Len(list) + 1 - k] ] }

C26_OrderFree ==
  \A a \in agents, other \in agents :
    \A list \in C26_Rearranged(a.incompatibilities) :
      score([a EXCEPT !.incompatibilities = list], other) = score(a, other)

\* The list without its entry at i.
C26_Without(list, i) ==
  [ k \in 1..(Len(list) - 1) |-> IF k < i THEN list[k] ELSE list[k + 1] ]

\* Every score is what it would be without an entry of the list that the
\* list holds elsewhere too.
C26_DuplicateFree ==
  \A a \in agents, other \in agents :
    \A i \in 1..Len(a.incompatibilities) :
      (\E j \in 1..Len(a.incompatibilities) :
          j # i /\ a.incompatibilities[j] = a.incompatibilities[i])
        => score([a EXCEPT !.incompatibilities = C26_Without(@, i)], other) = score(a, other)

\* Declaring a set again appends it to the list and changes nothing else
\* that the scores read.
C26_DuplicateStep ==
  transcript'.inp = "adds incompatibility" =>
    \A sentences \in ListIncompatibilityIn :
      ( /\ Ann # None
        /\ list_contains(Ann.incompatibilities, sentences)
        /\ AddsIncompatibility("Ann", sentences) )
        => /\ Ann.incompatibilities' = Append(Ann.incompatibilities, sentences)
           /\ C26_Without(Ann.incompatibilities', Len(Ann.incompatibilities'))
                = Ann.incompatibilities
           /\ agents' = mutated(Ann, [Ann EXCEPT !.incompatibilities = Ann.incompatibilities'])

\* C26: duplicate declarations are harmless for scoring.  Adding to an agent
\* an incompatibility set its list already holds leaves the commitments,
\* entitlements and incompatibles of every (scorekeeper, other) pair as they
\* were, and a rearrangement of an agent's list changes none of them.
C26_DuplicatesHarmless ==
  []C26_OrderFree /\ []C26_DuplicateFree /\ [][C26_DuplicateStep]_vars

\* Ann has just declared {red, blue} a second time; Bob is committed to red,
\* so Ann's list keeps the asserted blue out of Bob's entitlements.
C26_Witness ==
  /\ transcript.inp = "adds incompatibility"
  /\ Ann # None /\ Bob # None
  /\ Cardinality({ i \in 1..Len(Ann.incompatibilities) :
                     Ann.incompatibilities[i] = {Red, Blue} }) = 2
  /\ Red \in commitments(Ann, Bob)
  /\ Blue \in all_unchallenged_assertions
  /\ Blue \notin entitlements(Ann, Bob)

\* C27: in every state, for every pair and whatever the two intelligences,
\* each entitlement passes compatible_with against the scorekeeper's list
\* and the commitments: no entitlement outside the commitments completes,
\* with the commitments, a set declared by the scorekeeper.
C27_EntitlementsCompatible ==
  \A a \in agents, b \in agents :
  \A m \in {0, 1, DefaultIntelligence}, n \in {0, 1, 2, DefaultIntelligence} :
    LET scorekeeper == [a EXCEPT !.intelligence = m]
        other == [b EXCEPT !.intelligence = n]
        coms == commitments(scorekeeper, other)
    IN \A e \in entitlements(scorekeeper, other) :
         /\ compatible_with(scorekeeper.incompatibilities, coms, e)
         /\ e \notin coms =>
              \A inc \in C23_Declared(scorekeeper) :
                inc \subseteq (coms \cup {e}) => inc \subseteq coms

\* Ann, of intelligence 0, declares blue and colored incompatible and takes
\* Bob to be committed to blue alone; "A is colored" follows from Bob's
\* entitlement to blue and is pruned from the expansion.
C27_Witness ==
  /\ Ann # None /\ Bob # None
  /\ {Blue, Colored} \in C23_Declared(Ann)
  /\ Bob.intelligence > 0
  /\ commitments(Ann, Bob) = {Blue}
  /\ Colored \in consequences_once(Ann.committive_inferences, entitlements(Ann, Bob))
  /\ entitlements(Ann, Bob) = {Blue}

\* The number of the scorekeeper's committive plus permissive inferences.
C28_Inferences(scorekeeper) ==
  Cardinality(scorekeeper.committive_inferences)
    + Cardinality(scorekeeper.permissive_inferences)

\* One application of the step function of entitlements(scorekeeper, other).
C28_Expand(scorekeeper, other, ents) ==
  expand_entitlements(commitments(scorekeeper, other), ents, scorekeeper.incompatibilities,
                      scorekeeper.committive_inferences,
                      scorekeeper.permissive_inferences, other.intelligence)

\* What entitlements(scorekeeper, other) is with other.intelligence = k: the
\* base after at most k applications.
C28_Iterate(scorekeeper, other, k) ==
  entitlements(scorekeeper, [other EXCEPT !.intelligence = k])

\* C28: the expansion is inflationary on its iterates.  From the pruned
\* base on, each application of expand_entitlements returns a superset of
\* its argument; entitlements(scorekeeper, other) contains the base; and it
\* is a fixed point of the expansion whenever other.intelligence is at least
\* the number of the scorekeeper's committive plus permissive inferences.
C28_Inflationary ==
  \A scorekeeper \in agents, other \in agents :
    LET n == C28_Inferences(scorekeeper)
        base == entitlement_base(scorekeeper, other)
        ents == entitlements(scorekeeper, other)
    IN /\ base \subseteq ents
       /\ \A k \in 0..(n + 1) :
            LET iterate == C28_Iterate(scorekeeper, other, k)
            IN /\ iterate \subseteq C28_Expand(scorekeeper, other, iterate)
               /\ iterate \subseteq C28_Iterate(scorekeeper, other, k + 1)
               /\ k >= n => C28_Expand(scorekeeper, other, iterate) = iterate
       /\ other.intelligence >= n => C28_Expand(scorekeeper, other, ents) = ents

\* Ann has added colored |- fragrant and Bob has asserted "A is red": Bob's
\* entitlements for Ann grow from the base in three steps (colored,
\* fragrant, edible) and rest there.
C28_Witness ==
  /\ Ann # None /\ Bob # None
  /\ entitlement_base(Ann, Bob) = {Red}
  /\ C28_Iterate(Ann, Bob, 1) = {Red, Colored}
  /\ C28_Iterate(Ann, Bob, 2) = {Red, Colored, Fragrant}
  /\ C28_Iterate(Ann, Bob, 3) = {Red, Colored, Fragrant, Edible}
  /\ Bob.intelligence >= C28_Inferences(Ann)
  /\ entitlements(Ann, Bob) = {Red, Colored, Fragrant, Edible}

\* The sets that contain the other's avowed commitments and are closed
\* under the scorekeeper's committive inferences, among the sets of
\* sentences that the avowals and the conclusions can make up.
C29_ClosedSupersets(scorekeeper, other) ==
  { S \in SUBSET (other.commitments_avowed
                    \cup { inf.conclusion : inf \in scorekeeper.committive_inferences }) :
      /\ other.commitments_avowed \subseteq S
      /\ \A inf \in scorekeeper.committive_inferences :
           inf.premises \subseteq S => inf.conclusion \in S }

\* The least of them.
C29_Closure(scorekeeper, other) ==
  { s \in other.commitments_avowed
            \cup { inf.conclusion : inf \in scorekeeper.committive_inferences } :
      \A S \in C29_ClosedSupersets(scorekeeper, other) : s \in S }

\* C29: with scorekeeper.intelligence at least the number of the
\* scorekeeper's committive inferences, commitments(scorekeeper, other) is a
\* fixed point of consequences_once, it is the least superset of the other's
\* avowed commitments closed under those inferences, and a larger
\* intelligence gives the same set.
C29_CommitmentsFixedPoint ==
  \A scorekeeper \in agents, other \in agents :
    LET n == Cardinality(scorekeeper.committive_inferences)
        coms == commitments(scorekeeper, other)
    IN /\ scorekeeper.intelligence >= n =>
            /\ consequences_once(scorekeeper.committive_inferences, coms) = coms
            /\ coms = C29_Closure(scorekeeper, other)
            /\ coms \in C29_ClosedSupersets(scorekeeper, other)
       /\ \A m \in { n, n + 1, n + 2, DefaultIntelligence } :
            commitments([scorekeeper EXCEPT !.intelligence = m], other)
              = C29_Closure(scorekeeper, other)

\* Ann holds four committive inferences, colored |- fragrant among them, and
\* the default intelligence; Bob has asserted "A is red".  One round gives
\* colored, the second fragrant, and there the commitments rest.
C29_Witness ==
  /\ Ann # None /\ Bob # None
  /\ Cardinality(Ann.committive_inferences) = 4
  /\ Ann.intelligence >= 4
  /\ Bob.commitments_avowed = {Red}
  /\ consequences_once(Ann.committive_inferences, {Red}) = {Red, Colored}
  /\ commitments(Ann, Bob) = {Red, Colored, Fragrant}

\* C30: pruning never removes a sentence that is in the commitments, for
\* compatible_with is true of it; so when the other has avowed every member
\* of a set declared by the scorekeeper, and none of them is challenged, the
\* scorekeeper reports the set in incompatibles and holds the other entitled
\* to each of its members.
C30_CommitmentsSurvivePruning ==
  \A scorekeeper \in agents, other \in agents :
    LET coms == commitments(scorekeeper, other)
        incs == scorekeeper.incompatibilities
    IN /\ \A s \in coms : compatible_with(incs, coms, s)
       /\ remove_incompatibles(coms \cup all_unchallenged_assertions, coms, incs)
            \cap coms = coms
       /\ \A inc \in C23_Declared(scorekeeper) :
            inc \subseteq assertions_unchallenged(other)
              => /\ inc \in incompatibles(scorekeeper, other)
                 /\ inc \subseteq entitlement_base(scorekeeper, other)
                 /\ inc \subseteq entitlements(scorekeeper, other)

\* Bob has asserted "A is red" and "A is blue", nobody has challenged
\* either; Ann, who declares the two incompatible, reports the set among
\* Bob's incompatibles and holds him entitled to both.
C30_Witness ==
  /\ Ann # None /\ Bob # None
  /\ {Red, Blue} \in C23_Declared(Ann)
  /\ {Red, Blue} \subseteq assertions_unchallenged(Bob)
  /\ {Red, Blue} \in incompatibles(Ann, Bob)
  /\ {Red, Blue} \subseteq entitlements(Ann, Bob)

\* What an assertion by the named agent does to the commitments of every
\* pair: none shrinks, and only the pairs with the asserting agent as the
\* other may grow.
C31_Steps ==
  transcript'.inp = "asserts" =>
    \A name \in ScoreNameIn, sentence \in ScoreSentenceIn :
      ( agent_named(name) # None /\ Asserts(name, sentence) )
        => /\ \A a \in agents : \E b \in agents' :
                /\ b.name = a.name
                /\ b.intelligence = a.intelligence
                /\ b.committive_inferences = a.committive_inferences
           /\ \A scorekeeper \in agents, other \in agents :
                LET before == commitments(scorekeeper, other)
                    after == commitments(agent_named(scorekeeper.name),
                                         agent_named(other.name))'
                IN /\ before \subseteq after
                   /\ other.name # agent_named(name).name => after = before
                   /\ other.name = agent_named(name).name =>
                        sentence \in after

\* C31: asserting never shrinks attributed commitments.  With the
\* intelligences as they are, commitments(scorekeeper, other) after an
\* assertion contains what it was before, and is what it was before for
\* every pair whose other is not the asserting agent.
C31_AssertingNeverShrinks == [][C31_Steps]_vars

\* Bob's assertion of "A is red" was the first command: Ann now attributes
\* red and colored to Bob, and still nothing to herself.
C31_Witness ==
  /\ transcript = [len |-> 1, inp |-> "asserts"]
  /\ result.kind = "score_all"
  /\ Ann # None /\ Bob # None
  /\ Bob.commitments_avowed = {Red}
  /\ commitments(Ann, Bob) = {Red, Colored}
  /\ commitments(Ann, Ann) = {}
  /\ commitments(Bob, Ann) = {}

====
